---------------------------- MODULE Spec2Model ----------------------------
(* A model of kiranshila/tftp_client: the packet codec (src/src/parser.rs)  *)
(* and the download / upload state machines (src/src/lib.rs).               *)
(*                                                                          *)
(* A byte is a number 0..255, a byte string a sequence of bytes.  A call    *)
(* of download or upload is an engine record `e` that holds the call's      *)
(* arguments, its local variables, its result and the socket's log; every   *)
(* arm of the `match state` loop is an operator from the record (and the    *)
(* outcome of the socket call the arm makes) to the record after the arm.   *)
EXTENDS Integers, Sequences, FiniteSets, TLC

(***************************************************************************)
(* Program constants                                                       *)
(***************************************************************************)
BLKSIZE == 512

U16 == 65536

(***************************************************************************)
(* Bounds of the model                                                     *)
(***************************************************************************)
\* the largest `retries` argument tried
MaxRetries == 3

\* the number of socket receive events (datagram, timeout or I/O error) of one call
MaxRecv == 3

(***************************************************************************)
(* Byte strings                                                            *)
(***************************************************************************)
Min(a, b) == IF a < b THEN a ELSE b

\* u16::to_be_bytes
to_be_bytes(v) == << v \div 256, v % 256 >>

\* u16::from_be_bytes
from_be_bytes(b) == b[1] * 256 + b[2]

\* the slice s[from..to) with 0-based bounds, as Rust writes it
Slice(s, from, to) == SubSeq(s, from + 1, to)

\* the 1-based index of the first 0x00 of s at or after index i; 0 when there is none
RECURSIVE FindNul(_, _)
FindNul(s, i) ==
    IF i > Len(s) THEN 0
    ELSE IF s[i] = 0 THEN i
    ELSE FindNul(s, i + 1)

HasNul(s) == FindNul(s, 1) # 0

\* CString_new without the test for a NUL byte
CString_new_Unchecked(s) == [ok |-> TRUE, val |-> s]

\* CString::new(s): Err when s holds an interior NUL byte
CString_new(s) ==
    IF HasNul(s) THEN [ok |-> FALSE] ELSE [ok |-> TRUE, val |-> s]

IsCont(b) == b >= 128 /\ b <= 191

\* core::str::from_utf8(s).is_ok(), from index i on (str::to_str, String::from_utf8)
RECURSIVE Utf8From(_, _)
Utf8From(s, i) ==
    IF i > Len(s) THEN TRUE
    ELSE LET b == s[i]
             n == Len(s)
         IN IF b < 128 THEN Utf8From(s, i + 1)
            ELSE IF b >= 194 /\ b <= 223
                 THEN i + 1 <= n /\ IsCont(s[i + 1]) /\ Utf8From(s, i + 2)
            ELSE IF b >= 224 /\ b <= 239
                 THEN /\ i + 2 <= n
                      /\ IF b = 224 THEN s[i + 1] >= 160 /\ s[i + 1] <= 191
                         ELSE IF b = 237 THEN s[i + 1] >= 128 /\ s[i + 1] <= 159
                         ELSE IsCont(s[i + 1])
                      /\ IsCont(s[i + 2])
                      /\ Utf8From(s, i + 3)
            ELSE IF b >= 240 /\ b <= 244
                 THEN /\ i + 3 <= n
                      /\ IF b = 240 THEN s[i + 1] >= 144 /\ s[i + 1] <= 191
                         ELSE IF b = 244 THEN s[i + 1] >= 128 /\ s[i + 1] <= 143
                         ELSE IsCont(s[i + 1])
                      /\ IsCont(s[i + 2])
                      /\ IsCont(s[i + 3])
                      /\ Utf8From(s, i + 4)
            ELSE FALSE

IsUtf8(s) == Utf8From(s, 1)

\* str::to_ascii_lowercase
to_ascii_lowercase(s) ==
    [i \in 1..Len(s) |-> IF s[i] >= 65 /\ s[i] <= 90 THEN s[i] + 32 ELSE s[i]]

(***************************************************************************)
(* parser.rs: ErrorCode, RequestMode                                       *)
(***************************************************************************)
ErrorCodes ==
    << "Unspec", "NoFile", "Access", "Write", "Op", "BadId", "Exist", "BadUser", "BadOpt" >>

\* `*code as u16`
ErrorCode_as_u16(code) == (CHOOSE i \in 1..Len(ErrorCodes) : ErrorCodes[i] = code) - 1

\* from_u16 that maps every number to a code
from_u16_AnyCode(v) == [ok |-> TRUE, val |-> ErrorCodes[(v % 9) + 1]]

from_u16(v) ==
    IF v <= 8 THEN [ok |-> TRUE, val |-> ErrorCodes[v + 1]]
    ELSE [ok |-> FALSE, err |-> [kind |-> "BadErrorCode", v |-> v]]

\* "octet", "netascii", "mail" in ASCII
STR_octet == << 111, 99, 116, 101, 116 >>

STR_netascii == << 110, 101, 116, 97, 115, 99, 105, 105 >>

STR_mail == << 109, 97, 105, 108 >>

from_cstr(str) ==
    IF ~IsUtf8(str) THEN [ok |-> FALSE, err |-> [kind |-> "BadString"]]
    ELSE LET l == to_ascii_lowercase(str)
         IN IF l = STR_octet THEN [ok |-> TRUE, val |-> "Octet"]
            ELSE IF l = STR_netascii THEN [ok |-> TRUE, val |-> "NetAscii"]
            ELSE IF l = STR_mail THEN [ok |-> TRUE, val |-> "Mail"]
            ELSE [ok |-> FALSE, err |-> [kind |-> "BadString"]]

into_cstr(mode) ==
    IF mode = "Octet" THEN STR_octet
    ELSE IF mode = "NetAscii" THEN STR_netascii
    ELSE STR_mail

(***************************************************************************)
(* parser.rs: Packet                                                       *)
(***************************************************************************)
ReadRequest(filename, mode) == [op |-> "ReadRequest", filename |-> filename, mode |-> mode]

WriteRequest(filename, mode) == [op |-> "WriteRequest", filename |-> filename, mode |-> mode]

Data(block_n, data) == [op |-> "Data", block_n |-> block_n, data |-> data]

Acknowledgment(block_n) == [op |-> "Acknowledgment", block_n |-> block_n]

ErrorPkt(code, msg) == [op |-> "Error", code |-> code, msg |-> msg]

to_bytes(p) ==
    IF p.op = "ReadRequest"
    THEN to_be_bytes(1) \o p.filename \o << 0 >> \o into_cstr(p.mode) \o << 0 >>
    ELSE IF p.op = "WriteRequest"
    THEN to_be_bytes(2) \o p.filename \o << 0 >> \o into_cstr(p.mode) \o << 0 >>
    ELSE IF p.op = "Data"
    THEN to_be_bytes(3) \o to_be_bytes(p.block_n) \o p.data
    ELSE IF p.op = "Acknowledgment"
    THEN to_be_bytes(4) \o to_be_bytes(p.block_n)
    ELSE to_be_bytes(5) \o to_be_bytes(ErrorCode_as_u16(p.code)) \o p.msg \o << 0 >>

Incomplete(n) == [ok |-> FALSE, err |-> [kind |-> "Incomplete", n |-> n]]

BadString == [ok |-> FALSE, err |-> [kind |-> "BadString"]]

\* body.splitn(3, |x| *x == 0): at most three pieces, the last one the unsplit rest
splitn3(body) ==
    LET i == FindNul(body, 1)
        j == IF i = 0 THEN 0 ELSE FindNul(body, i + 1)
    IN IF i = 0 THEN << body >>
       ELSE IF j = 0 THEN << SubSeq(body, 1, i - 1), SubSeq(body, i + 1, Len(body)) >>
       ELSE << SubSeq(body, 1, i - 1), SubSeq(body, i + 1, j - 1),
               SubSeq(body, j + 1, Len(body)) >>

\* the RRQ and WRQ arms of from_bytes, which differ in the variant built
from_bytes_request(variant, body) ==
    IF Len(body) < 7 THEN Incomplete(Len(body))
    ELSE LET iter == splitn3(body)
         IN IF Len(iter) < 2 THEN Incomplete(0)
            ELSE LET filename == CString_new(iter[1])
                     mode_c == CString_new(iter[2])
                 IN IF ~filename.ok THEN BadString
                    ELSE IF ~mode_c.ok THEN BadString
                    ELSE LET mode == from_cstr(mode_c.val)
                         IN IF ~mode.ok THEN mode
                            ELSE [ok |-> TRUE,
                                  val |-> [op |-> variant, filename |-> filename.val,
                                           mode |-> mode.val]]

from_bytes(bytes) ==
    IF Len(bytes) < 4 THEN Incomplete(Len(bytes))
    ELSE LET opcode == from_be_bytes(Slice(bytes, 0, 2))
             body == Slice(bytes, 2, Len(bytes))
         IN IF opcode = 1 THEN from_bytes_request("ReadRequest", body)
            ELSE IF opcode = 2 THEN from_bytes_request("WriteRequest", body)
            ELSE IF opcode = 3
            THEN IF Len(body) < 2 THEN Incomplete(Len(body))
                 ELSE [ok |-> TRUE,
                       val |-> Data(from_be_bytes(Slice(body, 0, 2)),
                                    Slice(body, 2, Len(body)))]
            ELSE IF opcode = 4
            THEN [ok |-> TRUE, val |-> Acknowledgment(from_be_bytes(Slice(body, 0, 2)))]
            ELSE IF opcode = 5
            THEN IF Len(body) < 3 THEN Incomplete(Len(body))
                 ELSE LET code == from_u16(from_be_bytes(Slice(body, 0, 2)))
                      IN IF ~code.ok THEN code
                         ELSE IF body[Len(body)] # 0 THEN BadString
                         ELSE LET msg == CString_new(Slice(body, 2, Len(body) - 1))
                              IN IF ~msg.ok THEN BadString
                                 ELSE [ok |-> TRUE, val |-> ErrorPkt(code.val, msg.val)]
            ELSE [ok |-> FALSE, err |-> [kind |-> "BadOpcode", v |-> opcode]]

(***************************************************************************)
(* Arguments of a call                                                     *)
(***************************************************************************)
\* A payload `data: &[u8]` of d.len bytes is held as its length and the rule that
\* gives its bytes, so that a payload of more than 65535 blocks fits in a state:
\* byte i (0-based) of the payload
DataByte(d, i) == (d.seed + i + 3 * (i \div BLKSIZE)) % 256

\* the bytes data[from..to) of the payload
DataSlice(d, from, to) == [j \in 1..(to - from) |-> DataByte(d, from + j - 1)]

\* data.chunks(BLKSIZE).collect(): the number of chunks, chunks.len() ...
chunks_len(d) == (d.len + BLKSIZE - 1) \div BLKSIZE

\* ... and chunks[k], defined for k < chunks.len()
chunks(d, k) == DataSlice(d, k * BLKSIZE, Min((k + 1) * BLKSIZE, d.len))

NoData == [len |-> 0, seed |-> 0]

SocketAddr(ip, port) == [ip |-> ip, port |-> port]

(***************************************************************************)
(* lib.rs: results of a call                                               *)
(***************************************************************************)
Running == [kind |-> "Running"]

Ok(v) == [kind |-> "Ok", val |-> v]

Err(e) == [kind |-> "Err", err |-> e]

\* the call unwinds: an `expect` on Err, an index out of range, an arithmetic overflow
\* in a build with overflow checks
Panic(why) == [kind |-> "Panic", why |-> why]

\* `x as i16` of a u16
as_i16(x) == IF x < 32768 THEN x ELSE x - U16

(***************************************************************************)
(* The socket's log: what send_to and recv_from did, in order              *)
(***************************************************************************)
Tx(via, bytes, to) == [ev |-> "tx", via |-> via, bytes |-> bytes, addr |-> to, pass |-> TRUE]

Rx(bytes, from, pass) == [ev |-> "rx", via |-> "Recv", bytes |-> bytes, addr |-> from, pass |-> pass]

TimedOut == [ev |-> "timeout", via |-> "Recv", bytes |-> << >>, addr |-> SocketAddr("", 0), pass |-> FALSE]

IoError(via) == [ev |-> "ioerr", via |-> via, bytes |-> << >>, addr |-> SocketAddr("", 0), pass |-> FALSE]

\* what recv_from returns: a timeout, an I/O error, or a datagram and its source
EvTimeout == [kind |-> "timeout", bytes |-> << >>, addr |-> SocketAddr("", 0)]

EvIoError == [kind |-> "ioerr", bytes |-> << >>, addr |-> SocketAddr("", 0)]

EvDatagram(bytes, from) == [kind |-> "datagram", bytes |-> bytes, addr |-> from]

(***************************************************************************)
(* lib.rs: download                                                        *)
(***************************************************************************)
\* lines 60-74: the state on entry of the loop, or Err(BadFilename)
download(filename, server, timeout, max_timeout, retries) ==
    LET c == CString_new(filename)
    IN [op |-> "download", filename |-> filename, data |-> NoData,
        timeout |-> timeout, max_timeout |-> max_timeout, retries |-> retries,
        state |-> "Send", local_retries |-> retries, local_timeout |-> timeout,
        send_pkt |-> ReadRequest(IF c.ok THEN c.val ELSE << >>, "Octet"),
        server |-> server, file_data |-> << >>, done |-> FALSE, last_block_n |-> -1,
        result |-> IF c.ok THEN Running ELSE Err([kind |-> "BadFilename"]),
        log |-> << >>]

\* State::Send; io_ok: send_to returned Ok
download_Send(e, io_ok) ==
    LET e1 == [e EXCEPT !.local_retries = e.retries, !.local_timeout = e.timeout]
    IN IF ~io_ok
       THEN [e1 EXCEPT !.result = Err([kind |-> "SocketIo"]),
                       !.log = Append(@, IoError("Send"))]
       ELSE LET e2 == [e1 EXCEPT !.log = Append(@, Tx("Send", to_bytes(e.send_pkt), e.server))]
            IN IF e.done THEN [e2 EXCEPT !.result = Ok(e.file_data)]
               ELSE [e2 EXCEPT !.state = "Recv"]

\* download_SendAgain that resets the retry counters as Send does
download_SendAgain_Resets(e, io_ok) ==
    LET e1 == [e EXCEPT !.local_retries = e.retries, !.local_timeout = e.timeout]
    IN IF ~io_ok
       THEN [e1 EXCEPT !.result = Err([kind |-> "SocketIo"]),
                       !.log = Append(@, IoError("SendAgain"))]
       ELSE [e1 EXCEPT !.log = Append(@, Tx("SendAgain", to_bytes(e.send_pkt), e.server)),
                       !.state = "Recv"]

\* State::SendAgain
download_SendAgain(e, io_ok) ==
    IF ~io_ok
    THEN [e EXCEPT !.result = Err([kind |-> "SocketIo"]), !.log = Append(@, IoError("SendAgain"))]
    ELSE [e EXCEPT !.log = Append(@, Tx("SendAgain", to_bytes(e.send_pkt), e.server)),
                   !.state = "Recv"]

\* Recv_timeout with the test for 0 made before the decrement: one retry too many
Recv_timeout_TestBeforeDecrement(e) ==
    LET t == e.local_timeout + e.local_timeout \div 2
    IN IF e.local_retries = 0
       THEN [e EXCEPT !.result = Err([kind |-> "Timeout"]), !.log = Append(@, TimedOut)]
       ELSE [e EXCEPT !.local_retries = e.local_retries - 1,
                      !.local_timeout = IF t > e.max_timeout THEN e.max_timeout ELSE t,
                      !.state = "SendAgain",
                      !.log = Append(@, TimedOut)]

\* Recv_timeout without the clamp to max_timeout
Recv_timeout_NoClamp(e) ==
    LET r == e.local_retries - 1
        t == e.local_timeout + e.local_timeout \div 2
    IN IF r = 0
       THEN [e EXCEPT !.local_retries = r, !.result = Err([kind |-> "Timeout"]),
                      !.log = Append(@, TimedOut)]
       ELSE [e EXCEPT !.local_retries = r,
                      !.local_timeout = t,
                      !.state = "SendAgain",
                      !.log = Append(@, TimedOut)]

\* Recv_timeout without the return of Err(Timeout): the call retries for ever
Recv_timeout_NeverFails(e) ==
    LET r == e.local_retries - 1
        t == e.local_timeout + e.local_timeout \div 2
    IN [e EXCEPT !.local_retries = r,
                 !.local_timeout = IF t > e.max_timeout THEN e.max_timeout ELSE t,
                 !.state = "SendAgain",
                 !.log = Append(@, TimedOut)]

\* Recv_timeout that doubles the timeout
Recv_timeout_Doubles(e) ==
    LET r == e.local_retries - 1
        t == e.local_timeout + e.local_timeout
    IN IF r = 0
       THEN [e EXCEPT !.local_retries = r, !.result = Err([kind |-> "Timeout"]),
                      !.log = Append(@, TimedOut)]
       ELSE [e EXCEPT !.local_retries = r,
                      !.local_timeout = IF t > e.max_timeout THEN e.max_timeout ELSE t,
                      !.state = "SendAgain",
                      !.log = Append(@, TimedOut)]

\* State::Recv, the TimedOut arm of recv_from (the same lines in download and upload)
Recv_timeout(e) ==
    LET r == e.local_retries - 1
        t == e.local_timeout + e.local_timeout \div 2
    IN IF r = 0
       THEN [e EXCEPT !.local_retries = r, !.result = Err([kind |-> "Timeout"]),
                      !.log = Append(@, TimedOut)]
       ELSE [e EXCEPT !.local_retries = r,
                      !.local_timeout = IF t > e.max_timeout THEN e.max_timeout ELSE t,
                      !.state = "SendAgain",
                      !.log = Append(@, TimedOut)]

\* Recv_ioerr that takes the error for a timeout: the packet is sent again
Recv_ioerr_Retried(e) ==
    [e EXCEPT !.local_retries = e.local_retries - 1, !.state = "SendAgain",
              !.log = Append(@, IoError("Recv"))]

\* State::Recv, any other Err of recv_from
Recv_ioerr(e) ==
    [e EXCEPT !.result = Err([kind |-> "SocketIo"]), !.log = Append(@, IoError("Recv"))]

\* the n bytes recv_from leaves in buf = vec![0; BLKSIZE + 4]
Recv_buf(bytes) == SubSeq(bytes, 1, Min(Len(bytes), BLKSIZE + 4))

\* Recv_ignored without the IP test
Recv_ignored_NoIpTest(e, next_addr) ==
    next_addr.port # e.server.port /\ e.last_block_n # -1

\* Recv_ignored that drops nothing
Recv_ignored_Never(e, next_addr) == FALSE

\* Recv_ignored without the port test: any port of the server's IP passes at any time
Recv_ignored_NoPortTest(e, next_addr) == next_addr.ip # e.server.ip

\* Recv_ignored with the port test made from the start: the server's new port never passes
Recv_ignored_PortTestAlways(e, next_addr) ==
    next_addr.ip # e.server.ip \/ next_addr.port # e.server.port

\* the address filter: TRUE when the datagram is ignored
Recv_ignored(e, next_addr) ==
    \/ next_addr.ip # e.server.ip
    \/ (next_addr.port # e.server.port /\ e.last_block_n # -1)

\* the Packet::Error arm: msg.into_string().expect(..)
Recv_Error(e, pkt) ==
    IF IsUtf8(pkt.msg)
    THEN [e EXCEPT !.result = Err([kind |-> "Protocol", code |-> pkt.code, msg |-> pkt.msg])]
    ELSE [e EXCEPT !.result = Panic("Error message had invalid UTF-8")]

\* download_Data with `<=` for `<`: a full block ends the transfer
download_Data_FullBlockEnds(e, pkt, next_addr) ==
    [e EXCEPT !.server = IF e.last_block_n = -1
                         THEN SocketAddr(e.server.ip, next_addr.port)
                         ELSE e.server,
              !.last_block_n = as_i16(pkt.block_n),
              !.file_data = e.file_data \o pkt.data,
              !.done = IF Len(pkt.data) <= BLKSIZE THEN TRUE ELSE e.done,
              !.send_pkt = Acknowledgment(pkt.block_n),
              !.state = "Send"]

\* the Packet::Data arm of download
\* download_Data that acknowledges the block after the one it got
download_Data_AcksNext(e, pkt, next_addr) ==
    [e EXCEPT !.server = IF e.last_block_n = -1
                         THEN SocketAddr(e.server.ip, next_addr.port)
                         ELSE e.server,
              !.last_block_n = as_i16(pkt.block_n),
              !.file_data = e.file_data \o pkt.data,
              !.done = IF Len(pkt.data) < BLKSIZE THEN TRUE ELSE e.done,
              !.send_pkt = Acknowledgment((pkt.block_n + 1) % U16),
              !.state = "Send"]

download_Data(e, pkt, next_addr) ==
    [e EXCEPT !.server = IF e.last_block_n = -1
                         THEN SocketAddr(e.server.ip, next_addr.port)
                         ELSE e.server,
              !.last_block_n = as_i16(pkt.block_n),
              !.file_data = e.file_data \o pkt.data,
              !.done = IF Len(pkt.data) < BLKSIZE THEN TRUE ELSE e.done,
              !.send_pkt = Acknowledgment(pkt.block_n),
              !.state = "Send"]

\* Recv_unexpected that drops the packet and waits on: a wrong variant is not fatal
Recv_unexpected_Dropped(e, pkt) == e

\* the `_` arm of `match recv_pkt` (the same line in download and upload)
Recv_unexpected(e, pkt) ==
    [e EXCEPT !.result = Err([kind |-> "UnexpectedPacket", pkt |-> pkt])]

\* State::Recv of download, recv_from having returned ev
download_Recv(e, ev) ==
    IF ev.kind = "timeout" THEN Recv_timeout(e)
    ELSE IF ev.kind = "ioerr" THEN Recv_ioerr(e)
    ELSE LET buf == Recv_buf(ev.bytes)
             next_addr == ev.addr
         IN IF Recv_ignored(e, next_addr)
            THEN [e EXCEPT !.log = Append(@, Rx(buf, next_addr, FALSE))]
            ELSE LET e1 == [e EXCEPT !.log = Append(@, Rx(buf, next_addr, TRUE))]
                     recv_pkt == from_bytes(buf)
                 IN IF ~recv_pkt.ok
                    THEN [e1 EXCEPT !.result = Err([kind |-> "Parse", err |-> recv_pkt.err])]
                    ELSE IF recv_pkt.val.op = "Data"
                    THEN download_Data(e1, recv_pkt.val, next_addr)
                    ELSE IF recv_pkt.val.op = "Error"
                    THEN Recv_Error(e1, recv_pkt.val)
                    ELSE Recv_unexpected(e1, recv_pkt.val)

(***************************************************************************)
(* lib.rs: upload                                                          *)
(***************************************************************************)
\* lines 197-210
upload(filename, data, server, timeout, max_timeout, retries) ==
    LET c == CString_new(filename)
    IN [op |-> "upload", filename |-> filename, data |-> data,
        timeout |-> timeout, max_timeout |-> max_timeout, retries |-> retries,
        state |-> "Send", local_retries |-> retries, local_timeout |-> timeout,
        send_pkt |-> WriteRequest(IF c.ok THEN c.val ELSE << >>, "Octet"),
        server |-> server, file_data |-> << >>, done |-> FALSE, last_block_n |-> -1,
        result |-> IF c.ok THEN Running ELSE Err([kind |-> "BadFilename"]),
        log |-> << >>]

\* upload_Send without the reset of local_retries and local_timeout
upload_Send_NoReset(e, io_ok) ==
    IF ~io_ok
    THEN [e EXCEPT !.result = Err([kind |-> "SocketIo"]), !.log = Append(@, IoError("Send"))]
    ELSE [e EXCEPT !.log = Append(@, Tx("Send", to_bytes(e.send_pkt), e.server)),
                   !.state = "Recv"]

\* State::Send
upload_Send(e, io_ok) ==
    LET e1 == [e EXCEPT !.local_retries = e.retries, !.local_timeout = e.timeout]
    IN IF ~io_ok
       THEN [e1 EXCEPT !.result = Err([kind |-> "SocketIo"]),
                       !.log = Append(@, IoError("Send"))]
       ELSE [e1 EXCEPT !.log = Append(@, Tx("Send", to_bytes(e.send_pkt), e.server)),
                       !.state = "Recv"]

\* State::SendAgain
upload_SendAgain(e, io_ok) ==
    IF ~io_ok
    THEN [e EXCEPT !.result = Err([kind |-> "SocketIo"]), !.log = Append(@, IoError("SendAgain"))]
    ELSE [e EXCEPT !.log = Append(@, Tx("SendAgain", to_bytes(e.send_pkt), e.server)),
                   !.state = "Recv"]

\* lines 293-302: after the Ack was recorded.  overflow_checks: the build panics on
\* an arithmetic overflow (a debug build) instead of wrapping (a release build)
upload_next_chunk(e, block_n, overflow_checks) ==
    IF block_n = chunks_len(e.data) THEN [e EXCEPT !.result = Ok(<< >>)]
    ELSE IF block_n + 1 >= U16 /\ overflow_checks
    THEN [e EXCEPT !.result = Panic("attempt to add with overflow")]
    ELSE IF block_n >= chunks_len(e.data)
    THEN [e EXCEPT !.result = Panic("index out of bounds")]
    ELSE [e EXCEPT !.send_pkt = Data((block_n + 1) % U16, chunks(e.data, block_n)),
                   !.state = "Send"]

\* upload_Acknowledgment without the duplicate test: every Ack sends its next chunk
upload_Acknowledgment_NoDuplicateTest(e, pkt, next_addr, overflow_checks) ==
    upload_next_chunk([e EXCEPT !.server = IF e.last_block_n = -1
                                           THEN SocketAddr(e.server.ip, next_addr.port)
                                           ELSE e.server,
                                !.last_block_n = as_i16(pkt.block_n)],
                      pkt.block_n, overflow_checks)

\* the Packet::Acknowledgment arm of upload
upload_Acknowledgment(e, pkt, next_addr, overflow_checks) ==
    IF e.last_block_n = -1
    THEN upload_next_chunk([e EXCEPT !.server = SocketAddr(e.server.ip, next_addr.port),
                                     !.last_block_n = as_i16(pkt.block_n)],
                           pkt.block_n, overflow_checks)
    ELSE IF e.last_block_n = as_i16(pkt.block_n)
    THEN [e EXCEPT !.state = "Recv"]
    ELSE upload_next_chunk([e EXCEPT !.last_block_n = as_i16(pkt.block_n)],
                           pkt.block_n, overflow_checks)

\* State::Recv of upload, recv_from having returned ev
upload_Recv(e, ev, overflow_checks) ==
    IF ev.kind = "timeout" THEN Recv_timeout(e)
    ELSE IF ev.kind = "ioerr" THEN Recv_ioerr(e)
    ELSE LET buf == Recv_buf(ev.bytes)
             next_addr == ev.addr
         IN IF Recv_ignored(e, next_addr)
            THEN [e EXCEPT !.log = Append(@, Rx(buf, next_addr, FALSE))]
            ELSE LET e1 == [e EXCEPT !.log = Append(@, Rx(buf, next_addr, TRUE))]
                     recv_pkt == from_bytes(buf)
                 IN IF ~recv_pkt.ok
                    THEN [e1 EXCEPT !.result = Err([kind |-> "Parse", err |-> recv_pkt.err])]
                    ELSE IF recv_pkt.val.op = "Acknowledgment"
                    THEN upload_Acknowledgment(e1, recv_pkt.val, next_addr, overflow_checks)
                    ELSE IF recv_pkt.val.op = "Error"
                    THEN Recv_Error(e1, recv_pkt.val)
                    ELSE Recv_unexpected(e1, recv_pkt.val)

(***************************************************************************)
(* asynchronous.rs: download and upload.  The record of a call has the     *)
(* fields of lib.rs's; download keeps no last_block_n there (the field     *)
(* stays -1), and neither function tests where a datagram came from.       *)
(***************************************************************************)
\* lines 38-46
asynchronous_download(filename, server, timeout, max_timeout, retries) ==
    LET c == CString_new(filename)
    IN [op |-> "download", filename |-> filename, data |-> NoData,
        timeout |-> timeout, max_timeout |-> max_timeout, retries |-> retries,
        state |-> "Send", local_retries |-> retries, local_timeout |-> timeout,
        send_pkt |-> ReadRequest(IF c.ok THEN c.val ELSE << >>, "Octet"),
        server |-> server, file_data |-> << >>, done |-> FALSE, last_block_n |-> -1,
        result |-> IF c.ok THEN Running ELSE Err([kind |-> "BadFilename"]),
        log |-> << >>]

\* lines 150-159
asynchronous_upload(filename, data, server, timeout, max_timeout, retries) ==
    LET c == CString_new(filename)
    IN [op |-> "upload", filename |-> filename, data |-> data,
        timeout |-> timeout, max_timeout |-> max_timeout, retries |-> retries,
        state |-> "Send", local_retries |-> retries, local_timeout |-> timeout,
        send_pkt |-> WriteRequest(IF c.ok THEN c.val ELSE << >>, "Octet"),
        server |-> server, file_data |-> << >>, done |-> FALSE, last_block_n |-> -1,
        result |-> IF c.ok THEN Running ELSE Err([kind |-> "BadFilename"]),
        log |-> << >>]

\* State::Send of download
asynchronous_download_Send(e, io_ok) ==
    LET e1 == [e EXCEPT !.local_retries = e.retries, !.local_timeout = e.timeout]
    IN IF ~io_ok
       THEN [e1 EXCEPT !.result = Err([kind |-> "SocketIo"]),
                       !.log = Append(@, IoError("Send"))]
       ELSE LET e2 == [e1 EXCEPT !.log = Append(@, Tx("Send", to_bytes(e.send_pkt), e.server))]
            IN IF e.done THEN [e2 EXCEPT !.result = Ok(e.file_data)]
               ELSE [e2 EXCEPT !.state = "Recv"]

\* State::Send of upload
asynchronous_upload_Send(e, io_ok) ==
    LET e1 == [e EXCEPT !.local_retries = e.retries, !.local_timeout = e.timeout]
    IN IF ~io_ok
       THEN [e1 EXCEPT !.result = Err([kind |-> "SocketIo"]),
                       !.log = Append(@, IoError("Send"))]
       ELSE [e1 EXCEPT !.log = Append(@, Tx("Send", to_bytes(e.send_pkt), e.server)),
                       !.state = "Recv"]

\* State::SendAgain (the same lines in download and upload)
asynchronous_SendAgain(e, io_ok) ==
    IF ~io_ok
    THEN [e EXCEPT !.result = Err([kind |-> "SocketIo"]), !.log = Append(@, IoError("SendAgain"))]
    ELSE [e EXCEPT !.log = Append(@, Tx("SendAgain", to_bytes(e.send_pkt), e.server)),
                   !.state = "Recv"]

\* asynchronous_Recv_Ok that leaves `server` as it is
asynchronous_Recv_Ok_KeepsServer(e, buf, remote_addr) ==
    [e EXCEPT !.log = Append(@, Rx(buf, remote_addr, TRUE))]

\* the Ok arm of recv_from: `server = remote_addr`, whatever the datagram is
asynchronous_Recv_Ok(e, buf, remote_addr) ==
    [e EXCEPT !.server = remote_addr, !.log = Append(@, Rx(buf, remote_addr, TRUE))]

\* the Packet::Data arm of download
asynchronous_download_Data(e, pkt) ==
    [e EXCEPT !.file_data = e.file_data \o pkt.data,
              !.done = IF Len(pkt.data) < BLKSIZE THEN TRUE ELSE e.done,
              !.send_pkt = Acknowledgment(pkt.block_n),
              !.state = "Send"]

\* State::Recv of download, recv_from having returned ev
asynchronous_download_Recv(e, ev) ==
    IF ev.kind = "timeout" THEN Recv_timeout(e)
    ELSE IF ev.kind = "ioerr" THEN Recv_ioerr(e)
    ELSE LET buf == Recv_buf(ev.bytes)
             e1 == asynchronous_Recv_Ok(e, buf, ev.addr)
             recv_pkt == from_bytes(buf)
         IN IF ~recv_pkt.ok
            THEN [e1 EXCEPT !.result = Err([kind |-> "Parse", err |-> recv_pkt.err])]
            ELSE IF recv_pkt.val.op = "Data"
            THEN asynchronous_download_Data(e1, recv_pkt.val)
            ELSE IF recv_pkt.val.op = "Error"
            THEN Recv_Error(e1, recv_pkt.val)
            ELSE Recv_unexpected(e1, recv_pkt.val)

\* the Packet::Acknowledgment arm of upload
asynchronous_upload_Acknowledgment(e, pkt, overflow_checks) ==
    IF e.last_block_n = -1
    THEN upload_next_chunk([e EXCEPT !.last_block_n = as_i16(pkt.block_n)],
                           pkt.block_n, overflow_checks)
    ELSE IF e.last_block_n = as_i16(pkt.block_n)
    THEN [e EXCEPT !.state = "Recv"]
    ELSE upload_next_chunk([e EXCEPT !.last_block_n = as_i16(pkt.block_n)],
                           pkt.block_n, overflow_checks)

\* State::Recv of upload, recv_from having returned ev
asynchronous_upload_Recv(e, ev, overflow_checks) ==
    IF ev.kind = "timeout" THEN Recv_timeout(e)
    ELSE IF ev.kind = "ioerr" THEN Recv_ioerr(e)
    ELSE LET buf == Recv_buf(ev.bytes)
             e1 == asynchronous_Recv_Ok(e, buf, ev.addr)
             recv_pkt == from_bytes(buf)
         IN IF ~recv_pkt.ok
            THEN [e1 EXCEPT !.result = Err([kind |-> "Parse", err |-> recv_pkt.err])]
            ELSE IF recv_pkt.val.op = "Acknowledgment"
            THEN asynchronous_upload_Acknowledgment(e1, recv_pkt.val, overflow_checks)
            ELSE IF recv_pkt.val.op = "Error"
            THEN Recv_Error(e1, recv_pkt.val)
            ELSE Recv_unexpected(e1, recv_pkt.val)

(***************************************************************************)
(* The state: one call in progress and the network around it               *)
(***************************************************************************)
VARIABLES
    eng,    \* the call of download or upload in progress (or returned)
    prog,   \* the calling program: the calls it still makes and the results it got
    c2s,    \* datagrams the client has sent that the server has not yet read
    s2c,    \* datagrams delivered to the client's socket, not yet received
    srv,    \* the server
    codec,  \* a use of the codec on its own: a packet, its bytes, what they decode to
    eng2    \* a call of asynchronous.rs's download or upload in progress (or returned)

vars == << eng, prog, c2s, s2c, srv, codec, eng2 >>

\* the number of times recv_from has returned in this call
RecvCount(e) == Cardinality({i \in 1..Len(e.log) : e.log[i].via = "Recv"})

LastEv(e) == e.log[Len(e.log)]

(***************************************************************************)
(* Inputs                                                                  *)
(***************************************************************************)
\* the `server` argument, as in the test and the examples: port 69
Server0 == SocketAddr("ip0", 69)

\* the endpoints datagrams may come from
PeerX == SocketAddr("ip0", 1001)

PeerY == SocketAddr("ip0", 1002)

PeerZ == SocketAddr("ip1", 1001)

\* "/f", and a name with an interior NUL
Filenames == { << 47, 102 >>, << 47, 0, 102 >> }

\* (timeout, max_timeout) in nanoseconds
Timeouts == { << 2, 4 >>, << 3, 5 >> }

\* a file the peer serves from
RefFile == [len |-> 3 * BLKSIZE, seed |-> 7]

\* a payload of 65536 blocks: block numbers run past 65535
BigData == [len |-> U16 * BLKSIZE, seed |-> 5]

UploadData == { [len |-> 0, seed |-> 1], [len |-> 4, seed |-> 1],
                [len |-> BLKSIZE, seed |-> 1], BigData }

MSG_no == << 110, 111 >>

\* a datagram too short for any packet
Malformed == << 0, 3, 0 >>

\* what a peer may send to a client that downloads
DownloadEvents ==
    { EvTimeout, EvIoError }
    \cup { EvDatagram(b, PeerX) :
             b \in { to_bytes(Data(1, chunks(RefFile, 0))),
                     to_bytes(Data(2, DataSlice(RefFile, BLKSIZE, 2 * BLKSIZE - 1))),
                     to_bytes(Data(3, << >>)),
                     to_bytes(Data(U16 - 1, chunks(RefFile, 2))),
                     to_bytes(Acknowledgment(1)),
                     to_bytes(ReadRequest(<< 47, 102 >>, "Octet")),
                     to_bytes(WriteRequest(<< 47, 102 >>, "NetAscii")),
                     to_bytes(ErrorPkt("NoFile", MSG_no)),
                     to_bytes(ErrorPkt("Unspec", << 255 >>)),
                     Malformed } }
    \cup { EvDatagram(b, PeerY) : b \in { to_bytes(Data(2, chunks(RefFile, 1))), Malformed } }
    \cup { EvDatagram(b, PeerZ) : b \in { to_bytes(Data(1, << 1, 2, 3, 4 >>)) } }

\* what a peer may send to a client that uploads
UploadEvents ==
    { EvTimeout, EvIoError }
    \cup { EvDatagram(b, PeerX) :
             b \in { to_bytes(Acknowledgment(0)),
                     to_bytes(Acknowledgment(1)),
                     to_bytes(Acknowledgment(2)),
                     to_bytes(Acknowledgment(U16 - 1)),
                     to_bytes(Data(1, << 1, 2, 3, 4 >>)),
                     to_bytes(ReadRequest(<< 47, 102 >>, "Octet")),
                     to_bytes(WriteRequest(<< 47, 102 >>, "NetAscii")),
                     to_bytes(ErrorPkt("NoFile", MSG_no)),
                     to_bytes(ErrorPkt("Unspec", << 255 >>)),
                     Malformed } }
    \cup { EvDatagram(b, PeerY) : b \in { to_bytes(Acknowledgment(1)), Malformed } }
    \cup { EvDatagram(b, PeerZ) : b \in { to_bytes(Acknowledgment(0)) } }

\* no server is modelled: the peer of Spec sends what it likes
NoServer == [kind |-> "peer", files |-> << >>, xfer |-> [op |-> "idle"], tids |-> 0, copies |-> 1]

NoProg == [todo |-> << >>, results |-> << >>]

\* no call of asynchronous.rs is made
NoEngine == [op |-> "none", result |-> [kind |-> "None"], log |-> << >>]

\* the codec is not used on its own
NoCodec == [step |-> "idle", bytes |-> << >>, packets |-> << >>, decoded |-> << >>]

(***************************************************************************)
(* Spec: one call against a peer that may send anything, at any time       *)
(***************************************************************************)
Init ==
    /\ eng \in { download(f, Server0, t[1], t[2], r) :
                     f \in Filenames, t \in Timeouts, r \in 1..MaxRetries }
               \cup { upload(f, d, Server0, t[1], t[2], r) :
                     f \in Filenames, d \in UploadData, t \in Timeouts, r \in 1..MaxRetries }
    /\ prog = NoProg
    /\ c2s = << >>
    /\ s2c = << >>
    /\ srv = NoServer
    /\ codec = NoCodec
    /\ eng2 = NoEngine

Active(op, state) ==
    srv.kind = "peer" /\ eng.op = op /\ eng.result = Running /\ eng.state = state

DownloadSend ==
    /\ Active("download", "Send")
    /\ \E io_ok \in BOOLEAN : eng' = download_Send(eng, io_ok)
    /\ UNCHANGED << prog, c2s, s2c, srv, codec, eng2 >>

DownloadSendAgain ==
    /\ Active("download", "SendAgain")
    /\ \E io_ok \in BOOLEAN : eng' = download_SendAgain(eng, io_ok)
    /\ UNCHANGED << prog, c2s, s2c, srv, codec, eng2 >>

DownloadRecv ==
    /\ Active("download", "Recv")
    /\ RecvCount(eng) < MaxRecv
    /\ \E ev \in DownloadEvents : eng' = download_Recv(eng, ev)
    /\ UNCHANGED << prog, c2s, s2c, srv, codec, eng2 >>

UploadSend ==
    /\ Active("upload", "Send")
    /\ \E io_ok \in BOOLEAN : eng' = upload_Send(eng, io_ok)
    /\ UNCHANGED << prog, c2s, s2c, srv, codec, eng2 >>

UploadSendAgain ==
    /\ Active("upload", "SendAgain")
    /\ \E io_ok \in BOOLEAN : eng' = upload_SendAgain(eng, io_ok)
    /\ UNCHANGED << prog, c2s, s2c, srv, codec, eng2 >>

UploadRecv ==
    /\ Active("upload", "Recv")
    /\ RecvCount(eng) < MaxRecv
    /\ \E ev \in UploadEvents, overflow_checks \in BOOLEAN :
           eng' = upload_Recv(eng, ev, overflow_checks)
    /\ UNCHANGED << prog, c2s, s2c, srv, codec, eng2 >>

Next ==
    \/ DownloadSend
    \/ DownloadSendAgain
    \/ DownloadRecv
    \/ UploadSend
    \/ UploadSendAgain
    \/ UploadRecv

Spec == Init /\ [][Next]_vars

(***************************************************************************)
(* SpecRFC: the test's program, upload then download of the same name on   *)
(* one socket, against a server that follows RFC 1350, over a network that *)
(* delivers every datagram in order, srv.copies times                      *)
(***************************************************************************)
\* the largest payload of the test, in whole blocks
MaxBlocks == 2

TestData ==
    { [len |-> k * BLKSIZE + r, seed |-> 11] : k \in 0..MaxBlocks, r \in {0, 4, BLKSIZE - 1} }

\* the server's file `name`, once complete
HasFile(s, name) == \E i \in 1..Len(s.files) : s.files[i].name = name

FileOf(s, name) == (CHOOSE f \in {s.files[i] : i \in 1..Len(s.files)} : f.name = name).bytes

\* block k (from 1) of a file: 512 bytes, or what is left, or nothing
FileBlock(bytes, k) ==
    SubSeq(bytes, (k - 1) * BLKSIZE + 1, Min(k * BLKSIZE, Len(bytes)))

\* the port the server answers a new request from (its transfer id)
NextTid(s) == SocketAddr(Server0.ip, 1001 + s.tids)

\* what the server does with one datagram: << its state after, its replies >>
ServerOn(s, d) ==
    LET p == from_bytes(d.bytes)
    IN IF ~p.ok THEN << s, << >> >>
       ELSE IF p.val.op = "WriteRequest" /\ d.addr = Server0
       THEN << [s EXCEPT !.xfer = [op |-> "write", name |-> p.val.filename, bytes |-> << >>,
                                    block_n |-> 0, addr |-> NextTid(s)],
                         !.tids = @ + 1],
               << EvDatagram(to_bytes(Acknowledgment(0)), NextTid(s)) >> >>
       ELSE IF p.val.op = "ReadRequest" /\ d.addr = Server0
       THEN IF HasFile(s, p.val.filename)
            THEN << [s EXCEPT !.xfer = [op |-> "read", name |-> p.val.filename,
                                         bytes |-> FileOf(s, p.val.filename),
                                         block_n |-> 1, addr |-> NextTid(s)],
                              !.tids = @ + 1],
                    << EvDatagram(to_bytes(Data(1, FileBlock(FileOf(s, p.val.filename), 1))),
                                  NextTid(s)) >> >>
            ELSE << [s EXCEPT !.xfer = [op |-> "idle"], !.tids = @ + 1],
                    << EvDatagram(to_bytes(ErrorPkt("NoFile", MSG_no)), NextTid(s)) >> >>
       ELSE IF /\ p.val.op = "Data"
               /\ s.xfer.op = "write"
               /\ d.addr = s.xfer.addr
               /\ p.val.block_n = s.xfer.block_n + 1
       THEN LET bytes == s.xfer.bytes \o p.val.data
                reply == << EvDatagram(to_bytes(Acknowledgment(p.val.block_n)), s.xfer.addr) >>
            IN IF Len(p.val.data) < BLKSIZE
               THEN << [s EXCEPT !.files = Append(SelectSeq(@, LAMBDA f : f.name # s.xfer.name),
                                                  [name |-> s.xfer.name, bytes |-> bytes]),
                                 !.xfer = [op |-> "idle"]],
                       reply >>
               ELSE << [s EXCEPT !.xfer.bytes = bytes, !.xfer.block_n = p.val.block_n],
                       reply >>
       ELSE IF /\ p.val.op = "Acknowledgment"
               /\ s.xfer.op = "read"
               /\ d.addr = s.xfer.addr
               /\ p.val.block_n = s.xfer.block_n
       THEN IF Len(FileBlock(s.xfer.bytes, s.xfer.block_n)) < BLKSIZE
            THEN << [s EXCEPT !.xfer = [op |-> "idle"]], << >> >>
            ELSE << [s EXCEPT !.xfer.block_n = @ + 1],
                    << EvDatagram(to_bytes(Data(s.xfer.block_n + 1,
                                                FileBlock(s.xfer.bytes, s.xfer.block_n + 1))),
                                  s.xfer.addr) >> >>
       ELSE << s, << >> >>

Copies(replies, n) == IF n = 2 THEN replies \o replies ELSE replies

InitRFC ==
    /\ eng \in { upload(<< 47, 102 >>, d, Server0, t[1], t[2], r) :
                     d \in TestData, t \in Timeouts, r \in 1..MaxRetries }
    /\ prog = [todo |-> << "download" >>, results |-> << >>]
    /\ c2s = << >>
    /\ s2c = << >>
    /\ \E n \in {1, 2} :
           srv = [kind |-> "rfc1350", files |-> << >>, xfer |-> [op |-> "idle"],
                  tids |-> 0, copies |-> n]
    /\ codec = NoCodec
    /\ eng2 = NoEngine

ActiveRFC(state) ==
    srv.kind = "rfc1350" /\ eng.result = Running /\ eng.state = state

\* State::Send of the call in progress; the datagram is on its way to the server
ClientSend ==
    /\ ActiveRFC("Send")
    /\ eng' = IF eng.op = "download" THEN download_Send(eng, TRUE) ELSE upload_Send(eng, TRUE)
    /\ c2s' = Append(c2s, EvDatagram(LastEv(eng').bytes, LastEv(eng').addr))
    /\ UNCHANGED << prog, s2c, srv, codec, eng2 >>

\* State::Recv of the call in progress: recv_from returns the next datagram delivered
ClientRecv ==
    /\ ActiveRFC("Recv")
    /\ s2c # << >>
    /\ \E overflow_checks \in BOOLEAN :
           eng' = IF eng.op = "download" THEN download_Recv(eng, Head(s2c))
                  ELSE upload_Recv(eng, Head(s2c), overflow_checks)
    /\ s2c' = Tail(s2c)
    /\ UNCHANGED << prog, c2s, srv, codec, eng2 >>

\* the server reads one datagram and answers it
ServerStep ==
    /\ srv.kind = "rfc1350"
    /\ c2s # << >>
    /\ srv' = ServerOn(srv, Head(c2s))[1]
    /\ s2c' = s2c \o Copies(ServerOn(srv, Head(c2s))[2], srv.copies)
    /\ c2s' = Tail(c2s)
    /\ UNCHANGED << eng, prog, codec, eng2 >>

\* the test: upload(..).unwrap(), then download of the same name with the same arguments
ProgNext ==
    /\ srv.kind = "rfc1350"
    /\ eng.result.kind = "Ok"
    /\ prog.todo # << >>
    /\ prog' = [todo |-> Tail(prog.todo), results |-> Append(prog.results, eng)]
    /\ eng' = download(eng.filename, Server0, eng.timeout, eng.max_timeout, eng.retries)
    /\ UNCHANGED << c2s, s2c, srv, codec, eng2 >>

NextRFC ==
    \/ ClientSend
    \/ ClientRecv
    \/ ServerStep
    \/ ProgNext

SpecRFC == InitRFC /\ [][NextRFC]_vars

\* both environments: a call against any peer, or the test against the server
SpecAll == (Init \/ InitRFC) /\ [][Next \/ NextRFC]_vars

(***************************************************************************)
(* SpecCodec: the codec on its own, as the tests of parser.rs use it: a    *)
(* packet is built, to_bytes encodes it, from_bytes decodes the bytes; or  *)
(* from_bytes is given bytes that came from elsewhere                      *)
(***************************************************************************)
\* the longest filename and message tried
MaxNameLen == 2

\* the bytes filenames and messages are made of: "/", "f", and a byte that is not ASCII
NameBytes == { 47, 102, 255 }

\* the NUL-free byte strings of up to MaxNameLen bytes: what a CString may hold
CStrings == UNION { [1..k -> NameBytes] : k \in 0..MaxNameLen }

BlockNumbers == { 0, 1, 255, 256, U16 - 1 }

CodecPackets ==
    { ReadRequest(f, m) : f \in CStrings, m \in {"Octet", "NetAscii", "Mail"} }
    \cup { WriteRequest(f, m) : f \in CStrings, m \in {"Octet", "NetAscii", "Mail"} }
    \cup { Data(n, d) : n \in BlockNumbers,
                        d \in { << >>, << 0 >>, << 222, 173, 190, 239 >>, chunks(RefFile, 0) } }
    \cup { Acknowledgment(n) : n \in BlockNumbers }
    \cup { ErrorPkt(ErrorCodes[c], m) : c \in 1..Len(ErrorCodes), m \in CStrings }

\* datagrams with opcode 5 that no to_bytes produced: any code, any tail
CodecInputs ==
    { << 0, 5 >> \o to_be_bytes(c) \o t :
        c \in { 0, 8, 9, 256, U16 - 1 },
        t \in { << >>, << 0 >>, << 102 >>, << 102, 0 >>, << 0, 102 >>, << 102, 0, 102 >>,
                << 102, 0, 0 >>, << 255, 102 >> } }

NoCall == [NoServer EXCEPT !.kind = "none"]

InitCodec ==
    /\ eng = download(<< 47, 102 >>, Server0, 2, 4, 1)
    /\ prog = NoProg
    /\ c2s = << >>
    /\ s2c = << >>
    /\ srv = NoCall
    /\ eng2 = NoEngine
    /\ codec \in { [step |-> "packet", packets |-> << p >>, bytes |-> << >>, decoded |-> << >>] :
                       p \in CodecPackets }
                 \cup { [step |-> "bytes", packets |-> << >>, bytes |-> b, decoded |-> << >>] :
                       b \in CodecInputs }

\* let bytes = pkt.to_bytes();
CodecEncode ==
    /\ codec.step = "packet"
    /\ codec' = [codec EXCEPT !.step = "bytes", !.bytes = to_bytes(codec.packets[1])]
    /\ UNCHANGED << eng, prog, c2s, s2c, srv, eng2 >>

\* Packet::from_bytes(&bytes)
CodecDecode ==
    /\ codec.step = "bytes"
    /\ codec' = [codec EXCEPT !.step = "done", !.decoded = << from_bytes(codec.bytes) >>]
    /\ UNCHANGED << eng, prog, c2s, s2c, srv, eng2 >>

NextCodec ==
    \/ CodecEncode
    \/ CodecDecode

SpecCodec == InitCodec /\ [][NextCodec]_vars

(***************************************************************************)
(* SpecAsync: one call of asynchronous.rs's download or upload against a   *)
(* peer that may send anything, at any time                                *)
(***************************************************************************)
\* lib.rs is not called
IdleCall == download(<< 47, 102 >>, Server0, 2, 4, 1)

AnyPeer == [NoServer EXCEPT !.kind = "peer of asynchronous"]

InitAsync ==
    /\ eng2 \in { asynchronous_download(f, Server0, t[1], t[2], r) :
                      f \in Filenames, t \in Timeouts, r \in 1..MaxRetries }
                \cup { asynchronous_upload(f, d, Server0, t[1], t[2], r) :
                      f \in Filenames, d \in UploadData, t \in Timeouts, r \in 1..MaxRetries }
    /\ eng = IdleCall
    /\ prog = NoProg
    /\ c2s = << >>
    /\ s2c = << >>
    /\ srv = AnyPeer
    /\ codec = NoCodec

ActiveAsync(state) ==
    srv = AnyPeer /\ eng2.result = Running /\ eng2.state = state

AsyncSend ==
    /\ ActiveAsync("Send")
    /\ \E io_ok \in BOOLEAN :
           eng2' = IF eng2.op = "download" THEN asynchronous_download_Send(eng2, io_ok)
                   ELSE asynchronous_upload_Send(eng2, io_ok)
    /\ UNCHANGED << eng, prog, c2s, s2c, srv, codec >>

AsyncSendAgain ==
    /\ ActiveAsync("SendAgain")
    /\ \E io_ok \in BOOLEAN : eng2' = asynchronous_SendAgain(eng2, io_ok)
    /\ UNCHANGED << eng, prog, c2s, s2c, srv, codec >>

AsyncRecv ==
    /\ ActiveAsync("Recv")
    /\ RecvCount(eng2) < MaxRecv
    /\ \/ /\ eng2.op = "download"
          /\ \E ev \in DownloadEvents : eng2' = asynchronous_download_Recv(eng2, ev)
       \/ /\ eng2.op = "upload"
          /\ \E ev \in UploadEvents, overflow_checks \in BOOLEAN :
                 eng2' = asynchronous_upload_Recv(eng2, ev, overflow_checks)
    /\ UNCHANGED << eng, prog, c2s, s2c, srv, codec >>

NextAsync ==
    \/ AsyncSend
    \/ AsyncSendAgain
    \/ AsyncRecv

SpecAsync == InitAsync /\ [][NextAsync]_vars

(***************************************************************************)
(* SpecPair: the same call made of lib.rs and of asynchronous.rs, each on  *)
(* a socket of its own; the two sockets return the same events, and every  *)
(* datagram comes from the one endpoint srv.addr, at the server's IP       *)
(***************************************************************************)
OnePeer(addr) == [kind |-> "one peer", addr |-> addr]

\* the datagrams of `events`, sent from addr, and the two failures of recv_from
FromOnePeer(events, addr) ==
    { EvTimeout, EvIoError }
    \cup { EvDatagram(ev.bytes, addr) : ev \in { x \in events : x.kind = "datagram" } }

InitPair ==
    /\ \E f \in Filenames, t \in Timeouts, r \in 1..MaxRetries :
           \/ /\ eng = download(f, Server0, t[1], t[2], r)
              /\ eng2 = asynchronous_download(f, Server0, t[1], t[2], r)
           \/ \E d \in UploadData :
                 /\ eng = upload(f, d, Server0, t[1], t[2], r)
                 /\ eng2 = asynchronous_upload(f, d, Server0, t[1], t[2], r)
    /\ prog = NoProg
    /\ c2s = << >>
    /\ s2c = << >>
    /\ \E addr \in { Server0, PeerX } : srv = OnePeer(addr)
    /\ codec = NoCodec

\* both calls are at the same arm of the loop
ActivePair(state) ==
    /\ srv.kind = "one peer"
    /\ eng.result = Running
    /\ eng2.result = Running
    /\ eng.state = state
    /\ eng2.state = state

PairSend ==
    /\ ActivePair("Send")
    /\ \E io_ok \in BOOLEAN :
           IF eng.op = "download"
           THEN /\ eng' = download_Send(eng, io_ok)
                /\ eng2' = asynchronous_download_Send(eng2, io_ok)
           ELSE /\ eng' = upload_Send(eng, io_ok)
                /\ eng2' = asynchronous_upload_Send(eng2, io_ok)
    /\ UNCHANGED << prog, c2s, s2c, srv, codec >>

PairSendAgain ==
    /\ ActivePair("SendAgain")
    /\ \E io_ok \in BOOLEAN :
           /\ eng' = IF eng.op = "download" THEN download_SendAgain(eng, io_ok)
                     ELSE upload_SendAgain(eng, io_ok)
           /\ eng2' = asynchronous_SendAgain(eng2, io_ok)
    /\ UNCHANGED << prog, c2s, s2c, srv, codec >>

PairRecv ==
    /\ ActivePair("Recv")
    /\ RecvCount(eng) < MaxRecv
    /\ \/ /\ eng.op = "download"
          /\ \E ev \in FromOnePeer(DownloadEvents, srv.addr) :
                 /\ eng' = download_Recv(eng, ev)
                 /\ eng2' = asynchronous_download_Recv(eng2, ev)
       \/ /\ eng.op = "upload"
          /\ \E ev \in FromOnePeer(UploadEvents, srv.addr), overflow_checks \in BOOLEAN :
                 /\ eng' = upload_Recv(eng, ev, overflow_checks)
                 /\ eng2' = asynchronous_upload_Recv(eng2, ev, overflow_checks)
    /\ UNCHANGED << prog, c2s, s2c, srv, codec >>

NextPair ==
    \/ PairSend
    \/ PairSendAgain
    \/ PairRecv

SpecPair == InitPair /\ [][NextPair]_vars

(***************************************************************************)
(* SpecLive: one call of lib.rs against a peer that never stops sending.   *)
(* The loop of download and of upload takes its next arm whenever it can   *)
(* (weak fairness of the engine's step); which event recv_from returns is  *)
(* the peer's choice.  The engine reads nothing of the socket's log, and   *)
(* only the log's last entry is kept here, so that the states are finitely *)
(* many.  The payloads of upload have one chunk at most and the file the   *)
(* peer serves has MaxBlocks full blocks at most: the only way to go round *)
(* the loop for ever is to receive datagrams that are not answered.        *)
(***************************************************************************)
LivePeer == [kind |-> "peer that never stops"]

LastOnly(e) == [e EXCEPT !.log = IF Len(@) = 0 THEN @ ELSE << @[Len(@)] >>]

LiveData == { d \in UploadData : d.len <= BLKSIZE }

InitLive ==
    /\ eng \in { download(f, Server0, t[1], t[2], r) :
                     f \in Filenames, t \in Timeouts, r \in 1..MaxRetries }
               \cup { upload(f, d, Server0, t[1], t[2], r) :
                     f \in Filenames, d \in LiveData, t \in Timeouts, r \in 1..MaxRetries }
    /\ prog = NoProg
    /\ c2s = << >>
    /\ s2c = << >>
    /\ srv = LivePeer
    /\ codec = NoCodec
    /\ eng2 = NoEngine

ActiveLive(state) ==
    srv.kind = "peer that never stops" /\ eng.result = Running /\ eng.state = state

LiveSend ==
    /\ ActiveLive("Send")
    /\ \E io_ok \in BOOLEAN :
           eng' = LastOnly(IF eng.op = "download" THEN download_Send(eng, io_ok)
                           ELSE upload_Send(eng, io_ok))
    /\ UNCHANGED << prog, c2s, s2c, srv, codec, eng2 >>

LiveSendAgain ==
    /\ ActiveLive("SendAgain")
    /\ \E io_ok \in BOOLEAN :
           eng' = LastOnly(IF eng.op = "download" THEN download_SendAgain(eng, io_ok)
                           ELSE upload_SendAgain(eng, io_ok))
    /\ UNCHANGED << prog, c2s, s2c, srv, codec, eng2 >>

LiveRecv ==
    /\ ActiveLive("Recv")
    /\ \/ /\ eng.op = "download"
          /\ \E ev \in DownloadEvents :
                 /\ Len(download_Recv(eng, ev).file_data) < (MaxBlocks + 1) * BLKSIZE
                 /\ eng' = LastOnly(download_Recv(eng, ev))
       \/ /\ eng.op = "upload"
          /\ \E ev \in UploadEvents, overflow_checks \in BOOLEAN :
                 eng' = LastOnly(upload_Recv(eng, ev, overflow_checks))
    /\ UNCHANGED << prog, c2s, s2c, srv, codec, eng2 >>

NextLive ==
    \/ LiveSend
    \/ LiveSendAgain
    \/ LiveRecv

SpecLive == InitLive /\ [][NextLive]_vars /\ WF_vars(NextLive)

(***************************************************************************)
(* Reading the socket's log                                                *)
(***************************************************************************)
\* the indices of the log's entries that satisfy Test
LogIdx(e, Test(_)) == {i \in 1..Len(e.log) : Test(e.log[i])}

IsTx(x) == x.ev = "tx"

IsSendTx(x) == x.ev = "tx" /\ x.via = "Send"

\* a datagram that passed the address filter and was decoded
IsAccepted(x) == x.ev = "rx" /\ x.pass

PacketOf(x) == from_bytes(x.bytes)

IsOp(x, op) == PacketOf(x).ok /\ PacketOf(x).val.op = op

IsTxData(x) == IsTx(x) /\ IsOp(x, "Data")

IsSendTxData(x) == IsSendTx(x) /\ IsOp(x, "Data")

IsAcceptedData(x) == IsAccepted(x) /\ IsOp(x, "Data")

IsAcceptedAck(x) == IsAccepted(x) /\ IsOp(x, "Acknowledgment")

\* the largest element of a non-empty set of numbers; 0 for the empty set
MaxOf(S) == IF S = {} THEN 0 ELSE CHOOSE m \in S : \A n \in S : n <= m

\* the whole payload as a byte string
AllBytes(d) == DataSlice(d, 0, d.len)

\* the first call of the test, once it has returned Ok
Uploaded == prog.results[1]

(***************************************************************************)
(* C1  Round trip.  Against the RFC 1350 server, every datagram delivered  *)
(* once and in order: once upload(F, P) has returned Ok, the download(F)   *)
(* that follows on the same socket returns Ok with exactly the bytes of P. *)
(***************************************************************************)
C1_RoundTrip ==
    (/\ srv.kind = "rfc1350"
     /\ srv.copies = 1
     /\ prog.results # << >>
     /\ eng.op = "download"
     /\ eng.result # Running)
    => eng.result = Ok(AllBytes(Uploaded.data))

(***************************************************************************)
(* C3  Upload of L bytes, acknowledged block by block, transmits exactly   *)
(* ceil(L/512) distinct Data packets when L > 0 and L mod 512 # 0, and     *)
(* L/512 + 1 when L = 0 or L mod 512 = 0, the last one empty; the last     *)
(* Data sent before upload returns Ok carries fewer than 512 bytes.        *)
(***************************************************************************)
DataPacketsSent(e) == {PacketOf(e.log[i]).val : i \in LogIdx(e, IsTxData)}

LastDataSent(e) == PacketOf(e.log[MaxOf(LogIdx(e, IsTxData))]).val

C3_DataPacketCount ==
    (srv.kind = "rfc1350" /\ eng.op = "upload" /\ eng.result.kind = "Ok")
    => LET L == eng.data.len
       IN /\ Cardinality(DataPacketsSent(eng)) =
                 IF L > 0 /\ L % BLKSIZE # 0 THEN (L + BLKSIZE - 1) \div BLKSIZE
                 ELSE L \div BLKSIZE + 1
          /\ LogIdx(eng, IsTxData) # {}
          /\ Len(LastDataSent(eng).data) < BLKSIZE
          /\ (L % BLKSIZE = 0 => LastDataSent(eng).data = << >>)

(***************************************************************************)
(* C2  In download, the first accepted Data shorter than 512 bytes ends    *)
(* the transfer: no further receive; the only step left is the Send of the *)
(* Ack of that block, made once; the call returns Ok with the payloads of  *)
(* all accepted Data packets, concatenated in arrival order (or SocketIo   *)
(* when send_to of that Ack fails).  An accepted Data of exactly 512 bytes *)
(* does not end the transfer: done stays unset and Ok is not returned.     *)
(***************************************************************************)
\* the payloads of the accepted Data packets among the first n log entries, in order
RECURSIVE ConcatData(_, _)
ConcatData(e, n) ==
    IF n = 0 THEN << >>
    ELSE IF IsAcceptedData(e.log[n])
    THEN ConcatData(e, n - 1) \o PacketOf(e.log[n]).val.data
    ELSE ConcatData(e, n - 1)

IsAcceptedShortData(x) == IsAcceptedData(x) /\ Len(PacketOf(x).val.data) < BLKSIZE

MinOf(S) == CHOOSE m \in S : \A n \in S : m <= n

C2_ShortDataEnds ==
    eng.op = "download" =>
    LET short == LogIdx(eng, IsAcceptedShortData)
        n == Len(eng.log)
    IN /\ short # {} =>
            LET i == MinOf(short)
                ack == Tx("Send", to_bytes(Acknowledgment(PacketOf(eng.log[i]).val.block_n)),
                          eng.server)
            IN /\ n <= i + 1
               /\ n = i => eng.result = Running /\ eng.state = "Send" /\ eng.done
               /\ n = i + 1 =>
                    \/ eng.log[n] = ack /\ eng.result = Ok(ConcatData(eng, n))
                    \/ eng.log[n] = IoError("Send") /\ eng.result = Err([kind |-> "SocketIo"])
       /\ eng.result.kind = "Ok" => short # {}
       /\ short = {} => ~eng.done

C2_Witness ==
    /\ eng.op = "download"
    /\ eng.result.kind = "Ok"
    /\ Cardinality(LogIdx(eng, IsAcceptedData)) >= 2
    /\ Len(eng.result.val) > BLKSIZE

(***************************************************************************)
(* C4  upload returns Ok only upon accepting an Ack whose block number is  *)
(* the number N of chunks, and whenever it returns Ok every Data block     *)
(* 1..N of the payload has been transmitted at least once, whatever Acks   *)
(* the peer sends.                                                         *)
(***************************************************************************)
C4_OkOnlyAfterAllData ==
    (eng.op = "upload" /\ eng.result.kind = "Ok") =>
    /\ IsAcceptedAck(LastEv(eng))
    /\ PacketOf(LastEv(eng)).val.block_n = chunks_len(eng.data)
    /\ \A k \in 1..chunks_len(eng.data) :
           \E i \in LogIdx(eng, IsTxData) :
               PacketOf(eng.log[i]).val = Data(k, chunks(eng.data, k - 1))

(***************************************************************************)
(* C5  Duplicate-ack suppression in upload.  When an accepted Ack has the  *)
(* block number recorded in last_block_n, the client sends nothing, stays  *)
(* in Recv and leaves send_pkt, local_retries and local_timeout (and all   *)
(* else) as they are; and against the server with every Ack delivered      *)
(* twice in a row, each Data block is transmitted in the Send phase        *)
(* exactly once.                                                           *)
(***************************************************************************)
\* this step received one datagram
RecvStep == eng'.op = eng.op /\ Len(eng'.log) = Len(eng.log) + 1 /\ LastEv(eng').ev = "rx"

C5_DupAckStep ==
    /\ eng.op = "upload"
    /\ RecvStep
    /\ IsAcceptedAck(LastEv(eng'))
    /\ eng.last_block_n # -1
    /\ as_i16(PacketOf(LastEv(eng')).val.block_n) = eng.last_block_n

SendDataBlocks(e) == {PacketOf(e.log[i]).val.block_n : i \in LogIdx(e, IsSendTxData)}

C5_EachBlockOnce ==
    (srv.kind = "rfc1350" /\ srv.copies = 2 /\ eng.op = "upload") =>
    /\ Cardinality(LogIdx(eng, IsSendTxData)) = Cardinality(SendDataBlocks(eng))
    /\ eng.result # Running =>
         /\ eng.result.kind = "Ok"
         /\ SendDataBlocks(eng) = 1..chunks_len(eng.data)
         /\ \A i \in LogIdx(eng, IsSendTxData) :
                PacketOf(eng.log[i]).val.data =
                    chunks(eng.data, PacketOf(eng.log[i]).val.block_n - 1)

C6_TimeoutExhaustion ==
    LET n == Len(eng.log)
        j == MaxOf(LogIdx(eng, IsSendTx))
        after == (j + 1)..n
        T == Cardinality({k \in after : eng.log[k].ev = "timeout"})
        A == {k \in after : eng.log[k].ev = "tx"}
        quiet == \A k \in after : eng.log[k].ev \in {"timeout", "tx"}
        timeout == eng.result = Err([kind |-> "Timeout"])
    IN /\ T <= eng.retries
       /\ timeout <=> (j > 0 /\ T = eng.retries)
       /\ timeout => LastEv(eng) = TimedOut
       /\ \A k \in A : eng.log[k] = [eng.log[j] EXCEPT !.via = "SendAgain"]
       /\ (quiet /\ timeout) => Cardinality(A) + 1 = eng.retries
       /\ quiet => Cardinality(A) <= T /\ T <= Cardinality(A) + 1

C6_Witness ==
    /\ eng.result = Err([kind |-> "Timeout"])
    /\ eng.retries >= 2
    /\ Cardinality(LogIdx(eng, IsTx)) = eng.retries
    /\ \A k \in 1..Len(eng.log) : eng.log[k].ev \in {"timeout", "tx"}

(***************************************************************************)
(* C7  Once last_block_n # -1, a datagram whose source IP or port differs  *)
(* from server is dropped: it is not decoded, the engine stays in Recv,    *)
(* and state, send_pkt, local_retries, local_timeout, last_block_n, server *)
(* and file_data are unchanged; the step transmits nothing.                *)
(***************************************************************************)
C7_OffPeerStep ==
    /\ RecvStep
    /\ eng.last_block_n # -1
    /\ LastEv(eng').addr # eng.server

C7_OffPeerDropped ==
    [][C7_OffPeerStep =>
         /\ ~LastEv(eng').pass
         /\ eng'.state = "Recv"
         /\ eng' = [eng EXCEPT !.log = Append(eng.log, LastEv(eng'))]]_vars

\* a datagram from another port of the server's IP has just been dropped after the latch
C7_Witness ==
    /\ eng.result = Running
    /\ eng.last_block_n # -1
    /\ LastEv(eng).ev = "rx"
    /\ ~LastEv(eng).pass
    /\ LastEv(eng).addr.ip = eng.server.ip
    /\ LastEv(eng).addr.port # eng.server.port
    /\ PacketOf(LastEv(eng)).ok

(***************************************************************************)
(* C8  Before the first valid reply (last_block_n = -1) a datagram is      *)
(* accepted from any peer, whatever its source IP and port, and the peer's *)
(* IP and port become server, the address later packets are sent to.       *)
(***************************************************************************)
IsReply(e, x) ==
    IF e.op = "download" THEN IsOp(x, "Data") ELSE IsOp(x, "Acknowledgment")

C8_FirstStep == RecvStep /\ eng.last_block_n = -1

C8_AnyPeerAccepted ==
    [][C8_FirstStep =>
         /\ LastEv(eng').pass
         /\ IsReply(eng, LastEv(eng')) => eng'.server = LastEv(eng').addr]_vars

\* C8 as the code has it: while last_block_n = -1 a datagram is accepted exactly when
\* its source IP is server's, whatever its port; an accepted Data (download) or Ack
\* (upload) puts its source port into server, whose IP stays; nothing else changes
\* server; and every packet is sent to server as it is when the packet is sent.
C8_AnyPortOfServerIp ==
    /\ [][C8_FirstStep =>
            /\ LastEv(eng').pass <=> LastEv(eng').addr.ip = eng.server.ip
            /\ eng'.server =
                 IF LastEv(eng').pass /\ IsReply(eng, LastEv(eng'))
                 THEN SocketAddr(eng.server.ip, LastEv(eng').addr.port)
                 ELSE eng.server]_vars
    /\ [][(eng'.op = eng.op /\ Len(eng'.log) = Len(eng.log) + 1 /\ LastEv(eng').ev = "tx") =>
            /\ LastEv(eng').addr = eng.server
            /\ eng'.server = eng.server]_vars

\* the first reply came from another port than the one the call was given, and the
\* packet after it went to that port
C8_Witness ==
    /\ Len(eng.log) = 3
    /\ eng.log[2].ev = "rx"
    /\ eng.log[2].pass
    /\ eng.log[2].addr = PeerX
    /\ eng.log[1].addr = Server0
    /\ eng.log[3].ev = "tx"
    /\ eng.log[3].addr = PeerX

(***************************************************************************)
(* C9  server is mutated at most once per call: once an accepted reply has *)
(* latched the server's port, server never changes again, whatever block   *)
(* numbers (0..65535) the peer sends.                                      *)
(***************************************************************************)
Latched(e) ==
    IF e.op = "download" THEN LogIdx(e, IsAcceptedData) # {}
    ELSE LogIdx(e, IsAcceptedAck) # {}

C9_LatchedOnce ==
    [][(eng'.op = eng.op /\ Latched(eng)) => eng'.server = eng.server]_vars

(***************************************************************************)
(* C10  Whatever datagrams arrive and whatever retries >= 1 is, download   *)
(* and upload end only by returning Ok or a typed error: no call panics.   *)
(***************************************************************************)
C10_NoPanic == eng.result.kind \in {"Running", "Ok", "Err"}

(***************************************************************************)
(* C11  When a datagram that passes the address filter decodes to          *)
(* Error{code, msg}, the call returns Err(Protocol{code, msg}) at once:    *)
(* it is the last event of the call, nothing is sent after it.             *)
(***************************************************************************)
IsAcceptedError(x) == IsAccepted(x) /\ IsOp(x, "Error")

C11_ErrorIsProtocol ==
    \A i \in LogIdx(eng, IsAcceptedError) :
        /\ i = Len(eng.log)
        /\ eng.result = Err([kind |-> "Protocol",
                             code |-> PacketOf(eng.log[i]).val.code,
                             msg |-> PacketOf(eng.log[i]).val.msg])

(***************************************************************************)
(* C12  A well-formed packet of the wrong variant is fatal.  In download   *)
(* an accepted Ack, RRQ or WRQ, in upload an accepted Data, RRQ or WRQ, is *)
(* the last event of the call, which returns Err(UnexpectedPacket(p)) with *)
(* p the packet received: nothing is sent after it.                        *)
(***************************************************************************)
WrongVariants(op) ==
    IF op = "download" THEN {"Acknowledgment", "ReadRequest", "WriteRequest"}
    ELSE {"Data", "ReadRequest", "WriteRequest"}

IsAcceptedWrong(x) ==
    IsAccepted(x) /\ PacketOf(x).ok /\ PacketOf(x).val.op \in WrongVariants(eng.op)

C12_WrongVariantFatal ==
    \A i \in LogIdx(eng, IsAcceptedWrong) :
        /\ i = Len(eng.log)
        /\ eng.result = Err([kind |-> "UnexpectedPacket", pkt |-> PacketOf(eng.log[i]).val])

\* each of the six cases has happened: here an upload that received a WRQ
C12_Witness ==
    /\ eng.op = "upload"
    /\ eng.log # << >>
    /\ IsAccepted(LastEv(eng))
    /\ IsOp(LastEv(eng), "WriteRequest")
    /\ eng.result.kind = "Err"
    /\ \E i \in LogIdx(eng, IsSendTx) : i < Len(eng.log)

(***************************************************************************)
(* C13  A call whose filename holds a NUL byte returns Err(BadFilename)    *)
(* with no datagram sent or received.  With a NUL-free filename the first  *)
(* datagram sent is opcode 1 (download) or 2 (upload), the filename, NUL,  *)
(* "octet", NUL, and it goes to the server address the call was given.     *)
(***************************************************************************)
C13_BadFilename ==
    IF HasNul(eng.filename)
    THEN eng.result = Err([kind |-> "BadFilename"]) /\ eng.log = << >>
    ELSE eng.result # Err([kind |-> "BadFilename"])

C13_FirstTxStep ==
    /\ eng.result = Running
    /\ eng.log = << >>
    /\ eng'.op = eng.op
    /\ eng'.log # << >>
    /\ eng'.log[1].ev = "tx"

C13_RequestBytes(e) ==
    << 0, IF e.op = "download" THEN 1 ELSE 2 >> \o e.filename \o << 0 >> \o STR_octet \o << 0 >>

C13_Filename ==
    /\ []C13_BadFilename
    /\ [][C13_FirstTxStep =>
            /\ ~HasNul(eng.filename)
            /\ eng.server = Server0
            /\ eng'.log[1] = Tx("Send", C13_RequestBytes(eng), eng.server)]_vars

C13_Witness ==
    /\ HasNul(eng.filename)
    /\ eng.result = Err([kind |-> "BadFilename"])

\* the other case: a request on the wire
C13_WitnessRequest ==
    /\ ~HasNul(eng.filename)
    /\ eng.log # << >>
    /\ eng.log[1].ev = "tx"
    /\ IsOp(eng.log[1], "WriteRequest")

(***************************************************************************)
(* C14  Backoff schedule.  In a run of consecutive receive timeouts after  *)
(* a Send-phase transmission, the wait that follows k timeouts uses the    *)
(* deadline reached from T0 = timeout by k steps                           *)
(*     current := min(current + current/2, max_timeout)                    *)
(* in whole nanoseconds (the division truncates); the deadline does not    *)
(* decrease within the run and is T0 at the wait after a Send-phase        *)
(* transmission (k = 0).                                                   *)
(***************************************************************************)
RECURSIVE BackoffAfter(_, _, _)
BackoffAfter(t0, max, k) ==
    IF k = 0 THEN t0
    ELSE LET c == BackoffAfter(t0, max, k - 1)
         IN Min(c + c \div 2, max)

LastSendTx(e) == MaxOf(LogIdx(e, IsSendTx))

\* the engine waits in Recv and, since the last Send-phase transmission, the socket
\* has seen receive timeouts and retransmissions only
InTimeoutRun(e) ==
    /\ e.result = Running
    /\ e.state = "Recv"
    /\ LastSendTx(e) >= 1
    /\ \A i \in (LastSendTx(e) + 1)..Len(e.log) :
           e.log[i].ev = "timeout" \/ (e.log[i].ev = "tx" /\ e.log[i].via = "SendAgain")

\* the number of timeouts of the run so far
TimeoutRun(e) ==
    Cardinality({i \in (LastSendTx(e) + 1)..Len(e.log) : e.log[i].ev = "timeout"})

C14_TimeoutStep ==
    /\ eng.result = Running
    /\ eng'.op = eng.op
    /\ Len(eng'.log) = Len(eng.log) + 1
    /\ LastEv(eng').ev = "timeout"

C14_Backoff ==
    /\ [](InTimeoutRun(eng) =>
             eng.local_timeout = BackoffAfter(eng.timeout, eng.max_timeout, TimeoutRun(eng)))
    /\ [][C14_TimeoutStep => eng'.local_timeout >= eng.local_timeout]_vars

\* T0 = 3 ns, max_timeout = 5 ns: after two timeouts the wait is 5 (3, 4, then 6 clamped)
C14_Witness ==
    /\ InTimeoutRun(eng)
    /\ TimeoutRun(eng) = 2
    /\ eng.timeout = 3
    /\ eng.local_timeout = 5

RECURSIVE Pow(_, _)
Pow(b, k) == IF k = 0 THEN 1 ELSE b * Pow(b, k - 1)

\* w = min(t0 * 1.5^k, max), in integers
IsClosedForm(w, t0, max, k) ==
    IF t0 * Pow(3, k) <= max * Pow(2, k) THEN w * Pow(2, k) = t0 * Pow(3, k) ELSE w = max

\* the schedule as the closed form min(T0 * 1.5^k, max_timeout)
C14_ClosedForm ==
    InTimeoutRun(eng) =>
        IsClosedForm(eng.local_timeout, eng.timeout, eng.max_timeout, TimeoutRun(eng))

(***************************************************************************)
(* C15  Given 0 < timeout <= max_timeout, in every reachable state of      *)
(* download and upload  timeout <= local_timeout <= max_timeout.           *)
(***************************************************************************)
C15_TimeoutInRange ==
    (0 < eng.timeout /\ eng.timeout <= eng.max_timeout) =>
        (eng.timeout <= eng.local_timeout /\ eng.local_timeout <= eng.max_timeout)

\* a wait at the upper end: the backoff has reached max_timeout
C15_Witness ==
    /\ eng.result = Running
    /\ eng.state = "Recv"
    /\ eng.timeout < eng.max_timeout
    /\ eng.local_timeout = eng.max_timeout
    /\ LastEv(eng).via = "SendAgain"

(***************************************************************************)
(* C16  Given retries >= 1: whenever the loop is entered (the call has not *)
(* returned) 1 <= local_retries <= retries; local_retries is never below   *)
(* 0, and it becomes 0 only in the step that returns Err(Timeout).         *)
(***************************************************************************)
C16_AtLoopEntry ==
    eng.retries >= 1 =>
        /\ eng.local_retries >= 0
        /\ eng.local_retries <= eng.retries
        /\ eng.result = Running => eng.local_retries >= 1
        /\ eng.local_retries = 0 => eng.result = Err([kind |-> "Timeout"])

C16_ToZeroStep ==
    /\ eng'.op = eng.op
    /\ eng.result = Running
    /\ eng.local_retries # 0
    /\ eng'.local_retries = 0

C16_RetriesLeft ==
    /\ []C16_AtLoopEntry
    /\ [][C16_ToZeroStep =>
            /\ eng.state = "Recv"
            /\ LastEv(eng').ev = "timeout"
            /\ eng'.result = Err([kind |-> "Timeout"])]_vars

\* the counter has gone down to 0 from 2 or more
C16_Witness ==
    /\ eng.retries >= 2
    /\ eng.local_retries = 0
    /\ eng.result = Err([kind |-> "Timeout"])

(***************************************************************************)
(* C17  Retry counters after a receive.  A received datagram that makes    *)
(* the transfer advance (an accepted Data in download, an accepted Ack     *)
(* that is no duplicate in upload) leads to Send, and at the wait in Recv  *)
(* that follows local_retries = retries and local_timeout = timeout.  A    *)
(* received datagram after which the engine waits in Recv again at once (a *)
(* datagram the address filter drops, a duplicate Ack) leaves both         *)
(* counters as the preceding timeouts left them.                           *)
(***************************************************************************)
InRecv(e) == e.result = Running /\ e.state = "Recv"

CountersInitial(e) == e.local_retries = e.retries /\ e.local_timeout = e.timeout

\* the wait in Recv that follows a datagram received and the Send it led to
C17_AfterProgress ==
    (/\ InRecv(eng)
     /\ Len(eng.log) >= 2
     /\ IsSendTx(eng.log[Len(eng.log)])
     /\ eng.log[Len(eng.log) - 1].ev = "rx") => CountersInitial(eng)

C17_ProgressStep ==
    /\ eng.result = Running
    /\ RecvStep
    /\ eng'.result = Running
    /\ \/ eng.op = "download" /\ IsAcceptedData(LastEv(eng'))
       \/ /\ eng.op = "upload"
          /\ IsAcceptedAck(LastEv(eng'))
          /\ (eng.last_block_n = -1
                \/ as_i16(PacketOf(LastEv(eng')).val.block_n) # eng.last_block_n)

C17_BackToRecvStep ==
    /\ eng.result = Running
    /\ RecvStep
    /\ InRecv(eng')

C17_CountersAfterReceive ==
    /\ []C17_AfterProgress
    /\ [][C17_ProgressStep => eng'.state = "Send"]_vars
    /\ [][C17_BackToRecvStep =>
            /\ eng'.local_retries = eng.local_retries
            /\ eng'.local_timeout = eng.local_timeout
            /\ (~LastEv(eng').pass \/ (eng.op = "upload" /\ C5_DupAckStep))]_vars

\* a datagram came in after a timeout and the engine waits again, one retry down
C17_Witness ==
    /\ InRecv(eng)
    /\ LastEv(eng).ev = "rx"
    /\ eng.local_retries < eng.retries
    /\ eng.local_timeout > eng.timeout

\* the advance after a timeout: the counters are back
C17_WitnessProgress ==
    /\ InRecv(eng)
    /\ Len(eng.log) >= 4
    /\ IsSendTx(eng.log[Len(eng.log)])
    /\ eng.log[Len(eng.log) - 1].ev = "rx"
    /\ \E i \in 1..Len(eng.log) : eng.log[i].ev = "timeout"
    /\ CountersInitial(eng)

\* the most recent return of recv_from
LastRecv(e) == e.log[MaxOf({i \in 1..Len(e.log) : e.log[i].via = "Recv"})]

\* after any datagram received, the counters are initial at the next wait in Recv
C17_ResetAfterAnyReceive ==
    (/\ InRecv(eng)
     /\ \E i \in 1..Len(eng.log) : eng.log[i].via = "Recv"
     /\ LastRecv(eng).ev = "rx") => CountersInitial(eng)

(***************************************************************************)
(* C18  Codec round trip: for every packet p that can be built (the five   *)
(* variants; filename and msg any NUL-free byte string, the empty one      *)
(* included; the three modes; any block_n; data of 0..512 bytes),          *)
(* from_bytes(to_bytes(p)) = Ok(p).                                        *)
(***************************************************************************)
C18_RoundTrip ==
    (codec.step = "done" /\ codec.packets # << >>) =>
        codec.decoded[1] = [ok |-> TRUE, val |-> codec.packets[1]]

(***************************************************************************)
(* C19  from_bytes on bytes with opcode 5 and a body of at least 3 bytes   *)
(* whose last byte is not 0: the two-byte code is mapped first, so the     *)
(* result is Err(BadErrorCode(code)) for a code above 8, and               *)
(* Err(BadString) for a code in 0..8.                                      *)
(***************************************************************************)
\* the bytes decoded have opcode 5, a body of 3 bytes or more, and no NUL at the end
C19_NoTrailingNul ==
    /\ codec.step = "done"
    /\ Len(codec.bytes) >= 5
    /\ from_be_bytes(SubSeq(codec.bytes, 1, 2)) = 5
    /\ codec.bytes[Len(codec.bytes)] # 0

C19_CodeField == from_be_bytes(SubSeq(codec.bytes, 3, 4))

C19_CodeThenString ==
    C19_NoTrailingNul =>
        codec.decoded[1] =
            IF C19_CodeField <= 8 THEN [ok |-> FALSE, err |-> [kind |-> "BadString"]]
            ELSE [ok |-> FALSE, err |-> [kind |-> "BadErrorCode", v |-> C19_CodeField]]

\* one of the two outcomes: a valid code and a tail without NUL
C19_Witness ==
    /\ C19_NoTrailingNul
    /\ C19_CodeField = 8
    /\ codec.decoded[1].err.kind = "BadString"

\* BadString whatever the code
C19_AlwaysBadString ==
    C19_NoTrailingNul => codec.decoded[1] = [ok |-> FALSE, err |-> [kind |-> "BadString"]]

(***************************************************************************)
(* C20  SendAgain sends the bytes of the preceding transmission again, to  *)
(* the address that one went to, and goes to Recv; send_pkt,               *)
(* local_retries, local_timeout, last_block_n, server and file_data are    *)
(* unchanged (if the send fails the call returns Err(SocketIo), the locals *)
(* unchanged as well).  Send sets local_retries = retries and              *)
(* local_timeout = timeout, and no step outside Send moves either counter  *)
(* back towards its initial value.                                         *)
(***************************************************************************)
\* the preceding transmission
LastTx(e) == e.log[MaxOf(LogIdx(e, IsTx))]

C20_Step(state) ==
    /\ eng.result = Running
    /\ eng.state = state
    /\ eng'.op = eng.op
    /\ eng' # eng

C20_OtherStep ==
    /\ eng.result = Running
    /\ eng.state # "Send"
    /\ eng'.op = eng.op

C20_SendAgain ==
    /\ [][C20_Step("SendAgain") =>
            /\ LogIdx(eng, IsTx) # {}
            /\ \/ eng' = [eng EXCEPT !.state = "Recv",
                                      !.log = Append(@, Tx("SendAgain", LastTx(eng).bytes,
                                                           LastTx(eng).addr))]
               \/ eng' = [eng EXCEPT !.result = Err([kind |-> "SocketIo"]),
                                      !.log = Append(@, IoError("SendAgain"))]]_vars
    /\ [][C20_Step("Send") => CountersInitial(eng')]_vars
    /\ [][C20_OtherStep =>
            /\ eng'.local_retries <= eng.local_retries
            /\ eng'.local_timeout >= eng.local_timeout]_vars

\* an Ack sent again, to the port the transfer is latched to, after a timeout
C20_Witness ==
    /\ eng.op = "download"
    /\ eng.log # << >>
    /\ LastEv(eng).ev = "tx"
    /\ LastEv(eng).via = "SendAgain"
    /\ IsOp(LastEv(eng), "Acknowledgment")
    /\ LastEv(eng).addr # Server0
    /\ eng.local_retries < eng.retries

(***************************************************************************)
(* C21  A datagram that fails to decode ends the transfer with Err(Parse)  *)
(* exactly when it passed the address filter.  From another IP than the    *)
(* server's it is dropped, not decoded, at any time; from another port of  *)
(* the server's IP it is dropped only while last_block_n # -1, and before  *)
(* that it is decoded and ends the transfer.                               *)
(***************************************************************************)
C21_MalformedStep ==
    /\ eng.result = Running
    /\ RecvStep
    /\ ~PacketOf(LastEv(eng')).ok

C21_Passes(e, addr) ==
    addr.ip = e.server.ip /\ (addr.port = e.server.port \/ e.last_block_n = -1)

C21_ParseIffPassed ==
    [][C21_MalformedStep =>
        IF C21_Passes(eng, LastEv(eng').addr)
        THEN /\ LastEv(eng').pass
             /\ eng'.result = Err([kind |-> "Parse", err |-> PacketOf(LastEv(eng')).err])
        ELSE /\ ~LastEv(eng').pass
             /\ eng' = [eng EXCEPT !.log = eng'.log]]_vars

\* a malformed datagram from another port, after the latch: dropped, the call goes on
C21_Witness ==
    /\ eng.result = Running
    /\ eng.log # << >>
    /\ LastEv(eng).ev = "rx"
    /\ ~LastEv(eng).pass
    /\ ~PacketOf(LastEv(eng)).ok
    /\ LastEv(eng).addr.ip = eng.server.ip
    /\ eng.last_block_n # -1

\* a malformed datagram from any endpoint other than `server` is dropped
C21_OffPeerNeverParsed ==
    [][(C21_MalformedStep /\ LastEv(eng').addr # eng.server) =>
        (~LastEv(eng').pass /\ eng'.result = Running)]_vars

(***************************************************************************)
(* C22  A failure of send_to (in Send or SendAgain) and a failure of       *)
(* recv_from other than TimedOut end the call at once with Err(SocketIo):  *)
(* the failure is the last event of the call, local_retries is not         *)
(* decremented by it, and nothing else of the call changes (but for the    *)
(* reset of the counters that Send makes before it sends).                 *)
(***************************************************************************)
IsIoError(x) == x.ev = "ioerr"

C22_IoErrorStep ==
    /\ eng.result = Running
    /\ eng'.op = eng.op
    /\ Len(eng'.log) = Len(eng.log) + 1
    /\ IsIoError(LastEv(eng'))

C22_IoErrorIsLast ==
    \A i \in LogIdx(eng, IsIoError) :
        i = Len(eng.log) /\ eng.result = Err([kind |-> "SocketIo"])

C22_SocketIo ==
    /\ []C22_IoErrorIsLast
    /\ [][C22_IoErrorStep =>
            /\ LastEv(eng').via = eng.state
            /\ eng'.local_retries >= eng.local_retries
            /\ eng' = [eng EXCEPT !.result = Err([kind |-> "SocketIo"]),
                                  !.log = eng'.log,
                                  !.local_retries = eng'.local_retries,
                                  !.local_timeout = eng'.local_timeout]
            /\ eng.state # "Send" =>
                    /\ eng'.local_retries = eng.local_retries
                    /\ eng'.local_timeout = eng.local_timeout]_vars

\* a retransmission that failed, after a timeout
C22_Witness ==
    /\ eng.log # << >>
    /\ LastEv(eng) = IoError("SendAgain")
    /\ eng.result = Err([kind |-> "SocketIo"])
    /\ eng.local_retries = eng.retries - 1

\* the other two places: recv_from and the first send
C22_WitnessRecv ==
    /\ eng.log # << >>
    /\ LastEv(eng) = IoError("Recv")
    /\ eng.result = Err([kind |-> "SocketIo"])

(***************************************************************************)
(* C23  In lib.rs's download and upload a datagram whose source IP differs *)
(* from the IP of the server argument is dropped at every point of the     *)
(* call, before the first reply as well: the IP of `server` never changes, *)
(* only its port can.                                                      *)
(***************************************************************************)
C23_OtherIpStep ==
    /\ eng.result = Running
    /\ RecvStep
    /\ LastEv(eng').addr.ip # Server0.ip

C23_ServerIpConstant ==
    /\ [](eng.op \in {"download", "upload"} => eng.server.ip = Server0.ip)
    /\ [][C23_OtherIpStep =>
            /\ ~LastEv(eng').pass
            /\ eng' = [eng EXCEPT !.log = eng'.log]]_vars

\* a call whose port has moved and that has dropped a datagram from another IP
C23_Witness ==
    /\ eng.server.ip = Server0.ip
    /\ eng.server.port # Server0.port
    /\ \E i \in 1..Len(eng.log) :
           eng.log[i].ev = "rx" /\ eng.log[i].addr.ip # Server0.ip /\ ~eng.log[i].pass

(***************************************************************************)
(* C24  In asynchronous.rs's download and upload, after the first accepted *)
(* reply a datagram from another IP or port is not decoded and does not    *)
(* change `server`: the call waits on as if nothing had come, and no later *)
(* packet goes to that endpoint.                                           *)
(***************************************************************************)
IsRx(x) == x.ev = "rx"

C24_OffPeerStep ==
    /\ eng2.result = Running
    /\ eng2'.op = eng2.op
    /\ Len(eng2'.log) = Len(eng2.log) + 1
    /\ IsRx(LastEv(eng2'))
    /\ LogIdx(eng2, IsRx) # {}
    /\ LastEv(eng2').addr # eng2.server

C24_OffPeerRejected ==
    [][C24_OffPeerStep =>
        /\ eng2'.server = eng2.server
        /\ eng2'.result = Running
        /\ eng2'.state = "Recv"
        /\ eng2'.send_pkt = eng2.send_pkt]_vars

(***************************************************************************)
(* C25  The two source forms are the same engine.  When every datagram     *)
(* comes from one endpoint at the server's IP, lib.rs's call and           *)
(* asynchronous.rs's call, given the same receive events, have sent the    *)
(* same packets to the same addresses, are at the same arm of the loop,    *)
(* and have returned the same result, at every step.                       *)
(***************************************************************************)
\* what a call has sent so far: the phase, the bytes and the destination of each packet
Transmissions(e) == SelectSeq(e.log, IsTx)

C25_SameEngine ==
    srv.kind = "one peer" =>
        /\ Transmissions(eng) = Transmissions(eng2)
        /\ eng.result = eng2.result
        /\ eng.state = eng2.state

\* a transfer, with a retransmission, answered from another port than 69, has ended
C25_Witness ==
    /\ srv.kind = "one peer"
    /\ srv.addr # Server0
    /\ eng.result.kind = "Ok"
    /\ eng2.result.kind = "Ok"
    /\ \E i \in 1..Len(eng2.log) : eng2.log[i].ev = "tx" /\ eng2.log[i].via = "SendAgain"
    /\ LastTx(eng2).addr = srv.addr

(***************************************************************************)
(* C26  A Data block delivered more than once is appended once.  When a    *)
(* download returns Ok, its bytes are the payloads of the accepted Data    *)
(* packets in arrival order, leaving out every Data whose block_n equals   *)
(* the block_n of the Data accepted just before it.                        *)
(***************************************************************************)
\* the accepted Data at log[n] repeats the block number of the accepted Data before it
IsRepeatedData(e, n) ==
    LET prev == {i \in 1..(n - 1) : IsAcceptedData(e.log[i])}
    IN /\ prev # {}
       /\ PacketOf(e.log[MaxOf(prev)]).val.block_n = PacketOf(e.log[n]).val.block_n

RECURSIVE ConcatOnce(_, _)
ConcatOnce(e, n) ==
    IF n = 0 THEN << >>
    ELSE IF IsAcceptedData(e.log[n]) /\ ~IsRepeatedData(e, n)
    THEN ConcatOnce(e, n - 1) \o PacketOf(e.log[n]).val.data
    ELSE ConcatOnce(e, n - 1)

C26_EachBlockOnce ==
    (eng.op = "download" /\ eng.result.kind = "Ok")
    => eng.result.val = ConcatOnce(eng, Len(eng.log))

(***************************************************************************)
(* C27  Every call of download or upload eventually returns, whatever the  *)
(* peer sends: datagrams that the engine ignores do not keep it in Recv    *)
(* for ever.                                                               *)
(***************************************************************************)
C27_EventuallyReturns == <>(eng.result # Running)

(***************************************************************************)
(* C28  In upload, the Data packets sent in the Send phase carry the block *)
(* numbers 1, 2, ..., N in this order, each once, whatever the order of    *)
(* the Acks received.                                                      *)
(***************************************************************************)
C28_DataNumbersAscend ==
    eng.op = "upload" =>
    LET sent == SelectSeq(eng.log, IsSendTxData)
    IN \A i \in 1..Len(sent) : PacketOf(sent[i]).val.block_n = i

(***************************************************************************)
(* C29  last_block_n is -1 exactly while no reply has been accepted:       *)
(* `block_n as i16` never yields -1.                                       *)
(***************************************************************************)
C29_MinusOneIffNoReply ==
    eng.op \in {"download", "upload"} => (eng.last_block_n = -1 <=> ~Latched(eng))

(***************************************************************************)
(* C30  Download is lock-step.  The first packet sent in the Send phase is *)
(* the request; every other one is an Ack, sent directly after a Data      *)
(* packet was accepted and carrying that packet's block number; exactly    *)
(* one datagram is accepted between two consecutive Send-phase packets;    *)
(* and every accepted Data has its Ack: sent, or being sent (state Send),  *)
(* or refused by send_to as the last event of the call.                    *)
(***************************************************************************)
IsSendAck(x) == IsSendTx(x) /\ IsOp(x, "Acknowledgment")

\* the accepted Data at the end of the log whose Ack is not on the wire
AckOwed(e) ==
    LET n == Len(e.log)
    IN IF n >= 1 /\ IsAcceptedData(e.log[n]) THEN 1
       ELSE IF n >= 2 /\ e.log[n] = IoError("Send") /\ IsAcceptedData(e.log[n - 1]) THEN 1
       ELSE 0

C30_LockStep ==
    eng.op = "download" =>
    LET sends == LogIdx(eng, IsSendTx)
    IN /\ \A i \in sends :
            \/ i = 1 /\ IsOp(eng.log[i], "ReadRequest")
            \/ /\ i > 1
               /\ IsSendAck(eng.log[i])
               /\ IsAcceptedData(eng.log[i - 1])
               /\ PacketOf(eng.log[i]).val.block_n = PacketOf(eng.log[i - 1]).val.block_n
       /\ \A i, j \in sends :
            (i < j /\ \A k \in sends : ~(i < k /\ k < j))
            => Cardinality({k \in (i + 1)..(j - 1) : IsAccepted(eng.log[k])}) = 1
       /\ Cardinality(LogIdx(eng, IsAcceptedData))
            = Cardinality(LogIdx(eng, IsSendAck)) + AckOwed(eng)
       /\ AckOwed(eng) = 1 =>
            \/ eng.result = Running /\ eng.state = "Send"
            \/ eng.result = Err([kind |-> "SocketIo"])

\* two blocks accepted and acknowledged, with a timeout and a foreign datagram between them
C30_Witness ==
    /\ eng.op = "download"
    /\ eng.result.kind = "Ok"
    /\ Cardinality(LogIdx(eng, IsSendAck)) = 2
    /\ \E i \in 1..Len(eng.log) : eng.log[i].ev = "rx" /\ ~eng.log[i].pass

=============================================================================
